---------------------------- MODULE Spec2Model ----------------------------
(***************************************************************************)
(* A model of solver.py: one call of solve_spellingbee, from its argument  *)
(* validation through the traversal of the word source by the generator    *)
(* _load_words, the per-word filters, the scoring and the final sort.      *)
(*                                                                         *)
(* A character is a one-character string, a str is a sequence of           *)
(* characters, an Optional is the empty set (None) or a singleton.         *)
(***************************************************************************)
EXTENDS Integers, Sequences, FiniteSets, TLC

VARIABLES
    args,            \* the arguments of the call, as the caller passed them
    letters,         \* local `letters` (rebound at solver.py:72)
    center,          \* local `center` (rebound at solver.py:73)
    uniq_letters,    \* local `uniq_letters` (solver.py:75)
    pc,              \* position of the call
    handle,          \* the file object of _load_words: "none", "open", "closed"
    opens,           \* number of times path.open succeeded
    lines,           \* the lines the generator has read from the source so far
    word,            \* the loop variable `word` of solver.py:82
    results,         \* local `results`
    error            \* the exception the call ends with, or "none"

vars == <<args, letters, center, uniq_letters, pc, handle, opens, lines,
          word, results, error>>

-----------------------------------------------------------------------------
(* Bounds *)

MaxLines == 3

-----------------------------------------------------------------------------
(* Characters and strings *)

AZ == {"a", "b", "c", "d", "e", "f", "g", "h", "i", "j", "k", "l", "m",
       "n", "o", "p", "q", "r", "s", "t", "u", "v", "w", "x", "y", "z"}

Whitespace == {" "}

\* The characters of the model in code point order.
CodeOrder == <<" ", "-", "1", "A", "B", "C", "D", "E", "F", "G", "H",
               "a", "b", "c", "d", "e", "f", "g", "h", "i", "j", "k", "l",
               "m", "n", "o", "p", "q", "r", "s", "t", "u", "v", "w", "x",
               "y", "z">>

Chars == {CodeOrder[i] : i \in 1..Len(CodeOrder)}

Ord == [c \in Chars |-> CHOOSE i \in 1..Len(CodeOrder) : CodeOrder[i] = c]

\* str.lower on one character
LowerChar(c) ==
    CASE c = "A" -> "a" [] c = "B" -> "b" [] c = "C" -> "c" [] c = "D" -> "d"
      [] c = "E" -> "e" [] c = "F" -> "f" [] c = "G" -> "g" [] c = "H" -> "h"
      [] OTHER -> c

\* str.lower
lower(s) == [i \in 1..Len(s) |-> LowerChar(s[i])]

RECURSIVE lstrip(_)
lstrip(s) ==
    IF s # <<>> /\ Head(s) \in Whitespace THEN lstrip(Tail(s)) ELSE s

RECURSIVE rstrip(_)
rstrip(s) ==
    IF s # <<>> /\ s[Len(s)] \in Whitespace
    THEN rstrip(SubSeq(s, 1, Len(s) - 1))
    ELSE s

\* str.strip
strip(s) == rstrip(lstrip(s))

\* set(word), set(letters)
CharSet(s) == {s[i] : i \in 1..Len(s)}

\* _WORD_RE.match(w) for _WORD_RE = ^[a-z]+$
WORD_RE_match(w) == w # <<>> /\ \A i \in 1..Len(w) : w[i] \in AZ

\* str < str: lexicographic by code point, a proper prefix first
RECURSIVE StrLess(_, _)
StrLess(s, t) ==
    IF s = <<>> THEN t # <<>>
    ELSE IF t = <<>> THEN FALSE
    ELSE IF Head(s) = Head(t) THEN StrLess(Tail(s), Tail(t))
    ELSE Ord[Head(s)] < Ord[Head(t)]

-----------------------------------------------------------------------------
(* Optional values *)

None == {}
Some(v) == {v}
TheValue(o) == CHOOSE v \in o : TRUE

-----------------------------------------------------------------------------
(* The external collaborator wordfreq.zipf_frequency(word, "en"), scaled   *)
(* by ten: short words are common, long ones rare.                         *)

zipf_frequency(w) == IF Len(w) <= 4 THEN 50 ELSE IF Len(w) <= 7 THEN 36 ELSE 20

-----------------------------------------------------------------------------
(* The pure functions of solver.py *)

\* _is_valid_word without the test of solver.py:46
_is_valid_word_NoCenter(w, ls, c, min_len) ==
    IF Len(w) < min_len THEN FALSE
    ELSE CharSet(w) \subseteq ls

\* _is_valid_word without the test of solver.py:44
_is_valid_word_NoMinLen(w, ls, c, min_len) ==
    IF c \notin CharSet(w) THEN FALSE
    ELSE CharSet(w) \subseteq ls

_is_valid_word(w, ls, c, min_len) ==
    IF Len(w) < min_len THEN FALSE
    ELSE IF c \notin CharSet(w) THEN FALSE
    ELSE CharSet(w) \subseteq ls

\* _is_pangram with issubset for issuperset
_is_pangram_Subset(w, ls) == CharSet(w) \subseteq ls

_is_pangram(w, ls) == ls \subseteq CharSet(w)

\* _score_word with one point for every word of length 4 or less
_score_word_ShortIsOne(w, ls, pangram_bonus) ==
    LET is_pg == _is_pangram(w, ls)
        base  == IF Len(w) <= 4 THEN 1 ELSE Len(w)
    IN  <<base + (IF is_pg THEN pangram_bonus ELSE 0), is_pg>>

_score_word(w, ls, pangram_bonus) ==
    LET is_pg == _is_pangram(w, ls)
        base  == IF Len(w) = 4 THEN 1 ELSE Len(w)
    IN  <<base + (IF is_pg THEN pangram_bonus ELSE 0), is_pg>>

\* the length cap with >= for >
OverLengthCap_AtCap(w, max_len) == max_len # None /\ Len(w) >= TheValue(max_len)

\* solver.py:88
OverLengthCap(w, max_len) == max_len # None /\ Len(w) > TheValue(max_len)

\* solver.py:92, the guard of the frequency filter
FilterInUse(min_zipf, zipf_available) == min_zipf # None /\ zipf_available

\* the frequency filter with a missing lookup read as the score 0
FrequencyRejects_ZeroWhenMissing(w, min_zipf, zipf_available) ==
    /\ min_zipf # None
    /\ (IF zipf_available THEN zipf_frequency(w) ELSE 0) < TheValue(min_zipf)

\* solver.py:92-94, the frequency filter rejects the word
FrequencyRejects(w, min_zipf, zipf_available) ==
    FilterInUse(min_zipf, zipf_available)
    /\ zipf_frequency(w) < TheValue(min_zipf)

WordResult(w, score, is_pg, length) ==
    [word |-> w, score |-> score, is_pangram |-> is_pg, length |-> length]

\* solver.py:96-97
MakeResult(w, ls, pangram_bonus) ==
    LET sc == _score_word(w, ls, pangram_bonus)
    IN  WordResult(w, sc[1], sc[2], Len(w))

\* solver.py:84-97: one pass of the loop body, for the word w, on results rs
LoopBody(rs, w, ls, c, min_len, pangram_bonus, min_zipf, max_len, zipf_available) ==
    IF ~_is_valid_word(w, ls, c, min_len) THEN rs
    ELSE IF OverLengthCap(w, max_len) THEN rs
    ELSE IF FrequencyRejects(w, min_zipf, zipf_available) THEN rs
    ELSE Append(rs, MakeResult(w, ls, pangram_bonus))

\* the sort key without the word: (-r.score)
KeyLess_NoTieBreak(r1, r2) == -r1.score < -r2.score

\* the sort key of solver.py:99, compared as Python compares tuples
KeyLess(r1, r2) ==
    \/ -r1.score < -r2.score
    \/ -r1.score = -r2.score /\ StrLess(r1.word, r2.word)

\* insert r behind every element whose key is not greater (a stable sort)
RECURSIVE Insert(_, _)
Insert(r, rs) ==
    IF rs = <<>> THEN <<r>>
    ELSE IF KeyLess(r, Head(rs)) THEN <<r>> \o rs
    ELSE <<Head(rs)>> \o Insert(r, Tail(rs))

\* list.sort(key=lambda r: (-r.score, r.word))
RECURSIVE sort(_)
sort(rs) ==
    IF rs = <<>> THEN <<>>
    ELSE Insert(rs[Len(rs)], sort(SubSeq(rs, 1, Len(rs) - 1)))

\* solver.py:36-41 and 81-100: the list the call returns when the source
\* holds the lines ls and every read succeeds
RECURSIVE collect(_, _, _, _, _, _, _, _)
collect(src, ls, c, min_len, pangram_bonus, min_zipf, max_len, zipf_available) ==
    IF src = <<>> THEN <<>>
    ELSE LET rs == collect(SubSeq(src, 1, Len(src) - 1), ls, c, min_len,
                           pangram_bonus, min_zipf, max_len, zipf_available)
             w  == lower(strip(src[Len(src)]))
         IN  IF WORD_RE_match(w)
             THEN LoopBody(rs, w, ls, c, min_len, pangram_bonus, min_zipf,
                           max_len, zipf_available)
             ELSE rs

solve_lines(src, ls, c, min_len, pangram_bonus, min_zipf, max_len, zipf_available) ==
    sort(collect(src, ls, c, min_len, pangram_bonus, min_zipf, max_len,
                 zipf_available))

\* solver.py:72, 75
LowerAll(ls) == [i \in 1..Len(ls) |-> lower(ls[i])]
UniqLetters(ls) == {ls[i][1] : i \in 1..Len(ls)}

\* the validation without the test of solver.py:78
ConfigAccepted_CountOnly(uniq, c) == Cardinality(uniq) = 7

\* solver.py:76-79: the configuration is accepted
ConfigAccepted(uniq, c) == Cardinality(uniq) = 7 /\ c \in uniq

-----------------------------------------------------------------------------
(* The inputs of a call *)

LetterArgs ==
    { << <<"A">>, <<"B">>, <<"C">>, <<"d">>, <<"e">>, <<"f">>, <<"G">>, <<"a">> >>,
      << <<"a">>, <<"b">>, <<"c">>, <<"d">>, <<"e">>, <<"f">>, <<"f">> >>,
      << <<"a">>, <<"b">>, <<"c">>, <<"d">>, <<"e">>, <<"f">>, <<"g">>, <<"h">> >> }

CenterArgs == { <<"D">>, <<"h">> }

MinLenArgs == {3, 4}
MaxLenArgs == {None, Some(3), Some(7)}
BonusArgs == {-7, 0, 7}
MinZipfArgs == {None, Some(36)}

LinePool ==
    { <<" ", "A", "D", "D", "a", " ">>,
      <<"d", "a", "b">>,
      <<"a", "b", "c", "d", "e", "f", "g">>,
      <<"g", "f", "e", "d", "c", "b", "a", "a">>,
      <<"b", "c", "f", "g">>,
      <<"h", "a", "d", "a">>,
      <<"a", "-", "d", "1">>,
      <<" ">> }

\* without a threshold the lookup is never consulted: one case stands for both
ArgSets ==
    {a \in [letters : LetterArgs, center : CenterArgs, min_len : MinLenArgs,
            pangram_bonus : BonusArgs, min_zipf : MinZipfArgs,
            max_len : MaxLenArgs, zipf_available : BOOLEAN] :
        a.min_zipf = None => a.zipf_available}

\* the calls with the default min_len and pangram_bonus and one length cap
DefaultArgSets ==
    {a \in ArgSets : a.min_len = 4 /\ a.pangram_bonus = 7 /\ a.max_len = Some(7)}

-----------------------------------------------------------------------------
(* The call *)

InitWith(A) ==
    /\ args \in A
    /\ letters = args.letters
    /\ center = args.center
    /\ uniq_letters = {}
    /\ pc = "validate"
    /\ handle = "none"
    /\ opens = 0
    /\ lines = <<>>
    /\ word = <<>>
    /\ results = <<>>
    /\ error = "none"

Init == InitWith(ArgSets)

\* solver.py:72-79
Validate ==
    /\ pc = "validate"
    /\ LET ls == LowerAll(letters)
           c  == lower(center)
           u  == UniqLetters(ls)
       IN  /\ letters' = ls
           /\ center' = c
           /\ uniq_letters' = u
           /\ IF ConfigAccepted(u, c[1])
              THEN pc' = "load" /\ error' = error
              ELSE pc' = "raised" /\ error' = "ValueError"
    /\ UNCHANGED <<args, handle, opens, lines, word, results>>

\* solver.py:82 and 37: the first next() of the generator opens the source
Open ==
    /\ pc = "load"
    /\ \E ok \in BOOLEAN :
         IF ok
         THEN /\ handle' = "open"
              /\ opens' = opens + 1
              /\ pc' = "gen"
              /\ error' = error
         ELSE /\ pc' = "raised"
              /\ error' = "OSError"
              /\ UNCHANGED <<handle, opens>>
    /\ UNCHANGED <<args, letters, center, uniq_letters, lines, word, results>>

\* leaving the with block of solver.py:37 closes the file
ExitWith(h) == "closed"

\* solver.py:38-41: the generator reads one line, yields it if it matches
ReadLine ==
    /\ pc = "gen"
    /\ Len(lines) < MaxLines
    /\ \E line \in LinePool :
         LET w == lower(strip(line))
         IN  /\ lines' = Append(lines, line)
             /\ IF WORD_RE_match(w)
                THEN word' = w /\ pc' = "body"
                ELSE word' = word /\ pc' = "gen"
    /\ UNCHANGED <<args, letters, center, uniq_letters, handle, opens,
                   results, error>>

\* solver.py:38: the source is exhausted, the with block and the loop end
ReadEOF ==
    /\ pc = "gen"
    /\ handle' = ExitWith(handle)
    /\ pc' = "sort"
    /\ UNCHANGED <<args, letters, center, uniq_letters, opens, lines, word,
                   results, error>>

\* solver.py:38: reading fails, the with block is left by the exception
ReadError ==
    /\ pc = "gen"
    /\ handle' = ExitWith(handle)
    /\ pc' = "raised"
    /\ error' = "OSError"
    /\ UNCHANGED <<args, letters, center, uniq_letters, opens, lines, word,
                   results>>

\* solver.py:84-97: the loop body for the yielded word
Body ==
    /\ pc = "body"
    /\ results' = LoopBody(results, word, uniq_letters, center[1],
                           args.min_len, args.pangram_bonus, args.min_zipf,
                           args.max_len, args.zipf_available)
    /\ pc' = "gen"
    /\ UNCHANGED <<args, letters, center, uniq_letters, handle, opens, lines,
                   word, error>>

\* solver.py:93: the lookup raises; the generator is suspended at its yield
LookupRaises ==
    /\ pc = "body"
    /\ _is_valid_word(word, uniq_letters, center[1], args.min_len)
    /\ ~OverLengthCap(word, args.max_len)
    /\ FilterInUse(args.min_zipf, args.zipf_available)
    /\ pc' = "unwind"
    /\ error' = "LookupError"
    /\ UNCHANGED <<args, letters, center, uniq_letters, handle, opens, lines,
                   word, results>>

\* the exception leaves the frame and the generator is left suspended
Unwind_NoClose ==
    /\ pc = "unwind"
    /\ pc' = "raised"
    /\ UNCHANGED <<args, letters, center, uniq_letters, handle, opens, lines,
                   word, results, error>>

\* the exception leaves the frame of solve_spellingbee: the last reference
\* to the generator is dropped, it is closed at its yield (GeneratorExit)
\* and the with block of solver.py:37 is left
Unwind ==
    /\ pc = "unwind"
    /\ handle' = ExitWith(handle)
    /\ pc' = "raised"
    /\ UNCHANGED <<args, letters, center, uniq_letters, opens, lines, word,
                   results, error>>

\* solver.py:99-100
Sort ==
    /\ pc = "sort"
    /\ results' = sort(results)
    /\ pc' = "done"
    /\ UNCHANGED <<args, letters, center, uniq_letters, handle, opens, lines,
                   word, error>>

Next ==
    \/ Validate
    \/ Open
    \/ ReadLine
    \/ ReadEOF
    \/ ReadError
    \/ Body
    \/ LookupRaises
    \/ Unwind
    \/ Sort

Spec == Init /\ [][Next]_vars


\* a run never stops while a step of the call is left to take
FairInit == InitWith(DefaultArgSets)

FairSpec == FairInit /\ [][Next]_vars /\ WF_vars(Next)

-----------------------------------------------------------------------------
(* What the properties speak about, stated on the arguments of the call and *)
(* on the lines read, without the operators the call is computed with.      *)

\* the 7-letter set: the characters of the letters argument, lowercased
LetterSet == {LowerChar(args.letters[i][1]) : i \in 1..Len(args.letters)}

\* the center letter, lowercased
CenterLetter == LowerChar(args.center[1])

Accepted == Cardinality(LetterSet) = 7 /\ CenterLetter \in LetterSet

\* the positions of a line that hold no whitespace
Inked(line) == {i \in 1..Len(line) : line[i] # " "}

\* the line without its leading and trailing whitespace, lowercased
Normal(line) ==
    LET inked == Inked(line)
        first == CHOOSE i \in inked : \A j \in inked : i <= j
        last  == CHOOSE i \in inked : \A j \in inked : j <= i
    IN  IF inked = {} THEN <<>>
        ELSE [k \in 1..(last - first + 1) |-> LowerChar(line[first + k - 1])]

Occurs(w, c) == \E k \in 1..Len(w) : w[k] = c

\* the validity steps of a candidate
Qualifies(w) ==
    /\ Len(w) >= 1
    /\ \A k \in 1..Len(w) : w[k] \in AZ
    /\ Len(w) >= args.min_len
    /\ Occurs(w, CenterLetter)
    /\ LET set == LetterSet IN \A k \in 1..Len(w) : w[k] \in set
    /\ \A m \in args.max_len : Len(w) <= m
    /\ (args.zipf_available => \A z \in args.min_zipf : zipf_frequency(w) >= z)

\* s comes before t, or is t, in lexicographic order
LexLeq(s, t) ==
    \/ Len(s) <= Len(t) /\ \A k \in 1..Len(s) : s[k] = t[k]
    \/ \E k \in 1..Len(s) :
         /\ k <= Len(t)
         /\ \A j \in 1..(k - 1) : s[j] = t[j]
         /\ Ord[s[k]] < Ord[t[k]]

Returned == pc = "done"
Ended == pc \in {"done", "raised"}

-----------------------------------------------------------------------------
(* Properties *)

\* C1: every Word Result's word contains the center letter at least once
\* and every character of it belongs to the 7-letter set.
C1_WordsUseLetterSet ==
    LET set == LetterSet
    IN  \A i \in 1..Len(results) :
            /\ Occurs(results[i].word, CenterLetter)
            /\ \A k \in 1..Len(results[i].word) : results[i].word[k] \in set

\* a call returned a word although it read a candidate without the center
\* letter and a candidate with a letter outside the set
C1_Witness ==
    /\ Returned
    /\ results # <<>>
    /\ \E i \in 1..Len(lines) :
         /\ Len(Normal(lines[i])) >= args.min_len
         /\ ~Occurs(Normal(lines[i]), CenterLetter)
    /\ \E i \in 1..Len(lines) :
         /\ Occurs(Normal(lines[i]), CenterLetter)
         /\ \E k \in 1..Len(Normal(lines[i])) :
              Normal(lines[i])[k] \in AZ \ LetterSet

\* C2: the returned list holds a Word Result for every line whose trimmed,
\* lowercased text passes all validity steps, and holds no other word.
C2_ExactlyTheQualifying ==
    Returned =>
        LET text == [i \in 1..Len(lines) |-> Normal(lines[i])]
        IN  /\ \A i \in 1..Len(lines) :
                 Qualifies(text[i]) =>
                     \E j \in 1..Len(results) : results[j].word = text[i]
            /\ \A j \in 1..Len(results) :
                 /\ Qualifies(results[j].word)
                 /\ \E i \in 1..Len(lines) : text[i] = results[j].word

\* a call returned a word at the length cap and rejected a malformed line
\* and a well-formed line
C2_Witness ==
    /\ Returned
    /\ \E j \in 1..Len(results) : args.max_len = {results[j].length}
    /\ \E i \in 1..Len(lines) : \E k \in 1..Len(Normal(lines[i])) :
         Normal(lines[i])[k] \notin AZ
    /\ \E i \in 1..Len(lines) :
         /\ \A k \in 1..Len(Normal(lines[i])) : Normal(lines[i])[k] \in AZ
         /\ Len(Normal(lines[i])) >= 1
         /\ ~Qualifies(Normal(lines[i]))

\* C3: the returned list is sorted by score descending, ties by word
\* ascending.
C3_Sorted ==
    Returned =>
        \A i \in 1..(Len(results) - 1) :
            \/ results[i].score > results[i + 1].score
            \/ /\ results[i].score = results[i + 1].score
               /\ LexLeq(results[i].word, results[i + 1].word)

\* a call with a negative bonus returned a tie between two different words
\* that the source listed in the other order, and a strictly lower score
C3_Witness ==
    /\ Returned
    /\ args.pangram_bonus < 0
    /\ Len(results) = 3
    /\ results[1].score = results[2].score
    /\ results[1].word # results[2].word
    /\ results[2].score > results[3].score
    /\ \E i, j \in 1..Len(lines) :
         /\ i < j
         /\ Normal(lines[i]) = results[2].word
         /\ Normal(lines[j]) = results[1].word

\* C4: score == (1 if length == 4 else length) + (pangram_bonus if
\* is_pangram else 0), for every min_len and pangram_bonus.
C4_ScoreFormula ==
    \A i \in 1..Len(results) :
        results[i].score =
            (IF results[i].length = 4 THEN 1 ELSE results[i].length)
            + (IF results[i].is_pangram THEN args.pangram_bonus ELSE 0)

\* a call with min_len below 4 returned a word of length 3, one of length 4
\* and a pangram
C4_Witness ==
    /\ Returned
    /\ args.min_len < 4
    /\ \E i \in 1..Len(results) : results[i].length = 3 /\ results[i].score = 3
    /\ \E i \in 1..Len(results) : results[i].length = 4 /\ results[i].score = 1
    /\ \E i \in 1..Len(results) : results[i].is_pangram

\* C5: is_pangram is true iff the word uses each letter of the lowercased,
\* deduplicated 7-letter set at least once.
C5_PangramFlag ==
    LET set == LetterSet
    IN  \A i \in 1..Len(results) :
            results[i].is_pangram <=>
                \A c \in set : Occurs(results[i].word, c)

\* a call whose letters argument had upper case and a repeated letter
\* returned a pangram and a word that is none
C5_Witness ==
    /\ Returned
    /\ Len(args.letters) = 8
    /\ \E i \in 1..Len(args.letters) : args.letters[i][1] \notin AZ
    /\ \E i \in 1..Len(results) : results[i].is_pangram
    /\ \E i \in 1..Len(results) : ~results[i].is_pangram

\* C6: length is the number of characters of word, at least min_len and,
\* when max_len is set, at most max_len; with max_len < min_len the
\* returned list is empty.
C6_LengthBounds ==
    /\ \A i \in 1..Len(results) :
         /\ results[i].length = Len(results[i].word)
         /\ results[i].length >= args.min_len
         /\ \A m \in args.max_len : results[i].length <= m
    /\ (\E m \in args.max_len : m < args.min_len) => results = <<>>

\* a call with a length cap returned a word although a line was longer than
\* the cap and a line shorter than min_len
C6_Witness ==
    /\ Returned
    /\ results # <<>>
    /\ \E m \in args.max_len : \E i \in 1..Len(lines) :
         /\ Len(Normal(lines[i])) > m
         /\ Occurs(Normal(lines[i]), CenterLetter)
         /\ \A k \in 1..Len(Normal(lines[i])) : Normal(lines[i])[k] \in LetterSet
    /\ \E i \in 1..Len(lines) :
         /\ Len(Normal(lines[i])) \in 1..(args.min_len - 1)
         /\ \A k \in 1..Len(Normal(lines[i])) : Normal(lines[i])[k] \in LetterSet

\* with max_len < min_len a call read lines that pass every other step
C6_WitnessEmpty ==
    /\ Returned
    /\ \E m \in args.max_len : m < args.min_len
    /\ Len(lines) = MaxLines

\* C7: when the lowercased, deduplicated letters do not number 7, or the
\* lowercased center is not one of them, the call fails with the
\* configuration error, and the word source is never opened or read and no
\* Word Result is produced.
C7_RejectedBeforeTraversal ==
    ~Accepted =>
        /\ pc \in {"validate", "raised"}
        /\ pc = "raised" => error = "ValueError"
        /\ handle = "none"
        /\ opens = 0
        /\ lines = <<>>
        /\ results = <<>>

\* a call with 7 distinct letters and a center outside them has failed
C7_Witness ==
    /\ pc = "raised"
    /\ error = "ValueError"
    /\ Cardinality(LetterSet) = 7
    /\ CenterLetter \notin LetterSet

\* a call with 6 distinct letters has failed
C7_WitnessCount ==
    /\ pc = "raised"
    /\ error = "ValueError"
    /\ Cardinality(LetterSet) = 6

\* C8: when the commonness lookup is unavailable, a call with a threshold
\* raises no error of the lookup and returns the list the same call without
\* a threshold returns.
C8_UnavailableLookupSkipsFilter ==
    ~args.zipf_available =>
        /\ error # "LookupError"
        /\ pc # "unwind"
        /\ Returned =>
             results = solve_lines(lines, uniq_letters, center[1], args.min_len,
                                   args.pangram_bonus, None, args.max_len, FALSE)

\* a call with a threshold and no lookup returned a word the lookup, were
\* it available, would put below the threshold
C8_Witness ==
    /\ Returned
    /\ ~args.zipf_available
    /\ args.min_zipf # None
    /\ \E i \in 1..Len(results) : \E z \in args.min_zipf :
         zipf_frequency(results[i].word) < z

\* C9: the returned list contains no two Word Results with the same word.
C9_NoDuplicateWords ==
    Returned =>
        \A i, j \in 1..Len(results) : i # j => results[i].word # results[j].word

\* C10, as stated: a call that passes validation acquires the handle
\* exactly once and does not end with it open.
C10_ExactlyOnceAndReleased ==
    (Ended /\ error # "ValueError") => opens = 1 /\ handle = "closed"

\* C10, amended: a call that passes validation acquires the handle at most
\* once, not at all exactly when opening the source fails, and an acquired
\* handle is always eventually released: no call ends with it open.
C10_AtMostOnceAndReleased ==
    /\ [](opens <= 1)
    /\ [](handle = "none" <=> opens = 0)
    /\ []((Ended /\ error # "ValueError") =>
            /\ handle # "open"
            /\ opens = 0 <=> (error = "OSError" /\ lines = <<>> /\ handle = "none"))
    /\ (handle = "open" ~> handle = "closed")
    /\ (pc = "load" ~> Ended)

\* a call failed in the loop body with the generator suspended at its
\* yield, and the handle is released
C10_Witness ==
    /\ pc = "raised"
    /\ error = "LookupError"
    /\ opens = 1
    /\ handle = "closed"

=============================================================================
